---- MODULE Spec2Model ----
(***************************************************************************)
(* Optionator: tag-driven defaulting, With overrides and required-field    *)
(* validation of a configuration record (package pkg/optionator).          *)
(*                                                                         *)
(* Strings are sequences of one-character strings so that strconv and      *)
(* time.ParseDuration are computed, not assumed.  A record value is a      *)
(* function from field names to values; a pointer is NilPtr or Ptr(elem).  *)
(* A value of type interface{} is a pair [type, val].                      *)
(***************************************************************************)
EXTENDS Integers, Sequences, FiniteSets, TLC

VARIABLES
    metadataCache,  \* sync.Map: a set of entries [key |-> type, value |-> descriptors]
    pc,             \* the caller: "idle", "returned", "panicked" or "fatal"
    call,           \* the last call of the caller: its inputs and everything it produced
    gor             \* goroutines running getTypeMetadata concurrently

vars == <<metadataCache, pc, call, gor>>

(***************************************************************************)
(* Bounds of the model.                                                    *)
(***************************************************************************)
\* longest list of override steps passed to one call
MaxOpts == 2
\* depth of nested calls the runtime allows before it aborts the process
\* with a stack overflow (the Go runtime's limit is 1 GB of stack)
MaxStack == 6
\* goroutines that race on the metadata cache
NumGoroutines == 2

(***************************************************************************)
(* String literals used by the record types and the override values.       *)
(***************************************************************************)
EmptyStr == << >>
str_true == <<"t", "r", "u", "e">>
str_0000 == <<"0", ".", "0", ".", "0", ".", "0">>
str_127001 == <<"1", "2", "7", ".", "0", ".", "0", ".", "1">>
str_2s == <<"2", "s">>
str_100 == <<"1", "0", "0">>
str_8080 == <<"8", "0", "8", "0">>
str_localhost == <<"l", "o", "c", "a", "l", "h", "o", "s", "t">>
str_x == <<"x">>
str_5 == <<"5">>
str_9x == <<"9", "x">>
str_std == <<"s", "t", "d">>
str_200 == <<"2", "0", "0">>
str_40000 == <<"4", "0", "0", "0", "0">>
str_70000 == <<"7", "0", "0", "0", "0">>
\* twenty digits: beyond the 64-bit range
str_1e19 == <<"1", "0", "0", "0", "0", "0", "0", "0", "0", "0",
              "0", "0", "0", "0", "0", "0", "0", "0", "0", "0">>

(***************************************************************************)
(* Errors: the kind of the message and the field it names.                 *)
(*   target        "target must be a pointer to a struct"                  *)
(*   nosuchfield   "no such field: <field>"                                *)
(*   cannotset     "cannot set field: <field>"                             *)
(*   cannotconvert "cannot convert <type> to <type>"                       *)
(*   parse         "error setting default for field <field>: <strconv>"    *)
(*   unsupported   "error setting default for field <field>: unsupported"  *)
(*   required      "required field <field> is zero"                        *)
(*   nilpointer    "nil pointer encountered in validation"                 *)
(* and the two runtime faults, which are no error values:                  *)
(*   panic         a reflect panic                                         *)
(*   stackoverflow the runtime's fatal stack overflow                      *)
(***************************************************************************)
Err(k, f) == [kind |-> k, field |-> f]
NoErr == Err("none", "")

(***************************************************************************)
(* The type universe (reflect.Type).                                       *)
(***************************************************************************)
StructTypes ==
    {"Server", "NestedConfig", "TestStruct", "Basic", "Custom", "Node", "Limits",
     "tls.Config", "x509.CertPool"}

PtrTypes ==
    {"*Server", "*NestedConfig", "*TestStruct", "*Basic", "*Custom", "*Node", "*Limits",
     "*tls.Config", "*x509.CertPool"}

\* reflect.Type.Elem of a pointer type
Elem(t) ==
    CASE t = "*Server" -> "Server"
      [] t = "*NestedConfig" -> "NestedConfig"
      [] t = "*TestStruct" -> "TestStruct"
      [] t = "*Basic" -> "Basic"
      [] t = "*Custom" -> "Custom"
      [] t = "*Node" -> "Node"
      [] t = "*Limits" -> "Limits"
      [] t = "*tls.Config" -> "tls.Config"
      [] t = "*x509.CertPool" -> "x509.CertPool"

\* reflect.Type.Kind; the type of the untyped nil is the invalid kind
Kind(t) ==
    CASE t \in StructTypes -> "struct"
      [] t \in PtrTypes -> "ptr"
      [] t = "string" -> "string"
      [] t = "int" -> "int"
      [] t = "int8" -> "int8"
      [] t = "int16" -> "int16"
      [] t = "int64" -> "int64"
      [] t = "uint16" -> "uint16"
      [] t = "time.Duration" -> "int64"
      [] t = "bool" -> "bool"
      [] OTHER -> "invalid"

IntKinds == {"int", "int8", "int16", "int64"}
UintKinds == {"uint16"}

\* a struct field as reflect.StructField: PkgPath is empty for an exported field
SF(name, type, pkg, tag) == [Name |-> name, Type |-> type, PkgPath |-> pkg, Tag |-> tag]

\* reflect.StructTag.Get: the empty string when the key is absent
TagGet(tag, key) == IF key \in DOMAIN tag THEN tag[key] ELSE EmptyStr

NoTag == [none |-> EmptyStr]

\* the record types: those of optionator_test.go, and the caller's own
StructFields(t) ==
    CASE t = "Server" ->
           << SF("Address", "string", "", [default |-> str_0000, required |-> str_true]),
              SF("Timeout", "time.Duration", "", [default |-> str_2s]),
              SF("MaxConns", "int", "", [default |-> str_100]),
              SF("TLSConfig", "*tls.Config", "", NoTag),
              SF("Nested", "*NestedConfig", "", NoTag) >>
      [] t = "NestedConfig" ->
           << SF("Port", "int", "", [default |-> str_8080, required |-> str_true]),
              SF("Host", "string", "", [default |-> str_localhost, required |-> str_true]) >>
      [] t = "TestStruct" ->
           << SF("Field1", "string", "", [default |-> EmptyStr, required |-> str_true]) >>
      [] t = "Basic" ->
           << SF("Address", "string", "", [default |-> str_0000, required |-> str_true]),
              SF("Timeout", "time.Duration", "", [default |-> str_2s]),
              SF("MaxConns", "int", "", [default |-> str_100]) >>
      [] t = "Custom" ->
           << SF("Label", "string", "", [default |-> str_std, cfgdefault |-> str_x,
                                          cfgrequired |-> str_true]),
              SF("Level", "int", "", [default |-> str_5, cfgdefault |-> str_9x]),
              SF("secret", "string", "optionator", NoTag) >>
      [] t = "Node" ->
           << SF("Next", "*Node", "", NoTag) >>
      [] t = "Limits" ->
           << SF("Small", "int8", "", [default |-> str_200]),
              SF("Short", "int16", "", [default |-> str_40000]),
              SF("Mask", "uint16", "", [default |-> str_70000]),
              SF("Big", "int64", "", [default |-> str_1e19]) >>
      [] t = "tls.Config" ->
           << SF("ServerName", "string", "", NoTag),
              SF("RootCAs", "*x509.CertPool", "", NoTag),
              SF("MinVersion", "uint16", "", NoTag) >>
      [] t = "x509.CertPool" ->
           << SF("systemPool", "bool", "crypto/x509", NoTag) >>

NumField(t) == Len(StructFields(t))
FieldNames(t) == {StructFields(t)[i].Name : i \in 1..NumField(t)}
FieldIndex(t, name) == CHOOSE i \in 1..NumField(t) : StructFields(t)[i].Name = name
FieldType(t, name) == StructFields(t)[FieldIndex(t, name)].Type

(***************************************************************************)
(* Values.                                                                 *)
(***************************************************************************)
NilPtr == [isNil |-> TRUE]
Ptr(e) == [isNil |-> FALSE, elem |-> e]

\* reflect.Zero
RECURSIVE Zero(_)
Zero(t) ==
    CASE Kind(t) = "string" -> EmptyStr
      [] Kind(t) \in IntKinds \cup UintKinds -> 0
      [] Kind(t) = "bool" -> FALSE
      [] Kind(t) = "ptr" -> NilPtr
      [] Kind(t) = "struct" -> [n \in FieldNames(t) |-> Zero(FieldType(t, n))]

\* isZeroValue: reflect.DeepEqual with the zero value of the type.  A non-nil
\* pointer is never deeply equal to the nil pointer.
isZeroValue(v, t) == v = Zero(t)

(***************************************************************************)
(* strconv and time.ParseDuration, computed on the characters.             *)
(***************************************************************************)
Digits == {"0", "1", "2", "3", "4", "5", "6", "7", "8", "9"}

DigitVal(c) ==
    CASE c = "0" -> 0 [] c = "1" -> 1 [] c = "2" -> 2 [] c = "3" -> 3 [] c = "4" -> 4
      [] c = "5" -> 5 [] c = "6" -> 6 [] c = "7" -> 7 [] c = "8" -> 8 [] c = "9" -> 9

AllDigits(s) == \A i \in 1..Len(s) : s[i] \in Digits

RECURSIVE DigitsValue(_)
DigitsValue(s) ==
    IF s = << >> THEN 0
    ELSE 10 * DigitsValue(SubSeq(s, 1, Len(s) - 1)) + DigitVal(s[Len(s)])

\* strconv.ParseUint(s, 10, 64).  2^64 - 1 and 2^63 - 1 have 20 and 19 decimal
\* digits; the literals of this model have fewer than ten, so the range error of
\* a 64-bit parse is told by the number of digits and is not reached here.
ParseUint(s) ==
    IF s = << >> \/ ~AllDigits(s) THEN [err |-> "syntax", val |-> 0]
    ELSE IF Len(s) > 20 THEN [err |-> "range", val |-> 0]
    ELSE [err |-> "none", val |-> DigitsValue(s)]

\* strconv.ParseInt(s, 10, 64): an optional sign, then the digits
ParseInt(s) ==
    IF s = << >> THEN [err |-> "syntax", val |-> 0]
    ELSE LET signed == s[1] \in {"+", "-"}
             ds == IF signed THEN Tail(s) ELSE s
         IN  IF ds = << >> \/ ~AllDigits(ds) THEN [err |-> "syntax", val |-> 0]
             ELSE IF Len(ds) > 19 THEN [err |-> "range", val |-> 0]
             ELSE [err |-> "none",
                   val |-> IF s[1] = "-" THEN 0 - DigitsValue(ds) ELSE DigitsValue(ds)]

\* strconv.ParseBool
ParseBool(s) ==
    IF s \in {<<"1">>, <<"t">>, <<"T">>, <<"T", "R", "U", "E">>, str_true,
              <<"T", "r", "u", "e">>}
    THEN [err |-> "none", val |-> TRUE]
    ELSE IF s \in {<<"0">>, <<"f">>, <<"F">>, <<"F", "A", "L", "S", "E">>,
                   <<"f", "a", "l", "s", "e">>, <<"F", "a", "l", "s", "e">>}
    THEN [err |-> "none", val |-> FALSE]
    ELSE [err |-> "syntax", val |-> FALSE]

\* time's unit table, in nanoseconds (a Duration is an int64 count of them)
DurationUnits == {<<"n", "s">>, <<"u", "s">>, <<"m", "s">>, <<"s">>, <<"m">>, <<"h">>}
UnitValue(u) ==
    CASE u = <<"n", "s">> -> 1
      [] u = <<"u", "s">> -> 1000
      [] u = <<"m", "s">> -> 1000000
      [] u = <<"s">> -> 1000000000
      [] u = <<"m">> -> 60 * 1000000000
      [] u = <<"h">> -> 3600 * 1000000000

RECURSIVE LeadingDigits(_)
LeadingDigits(s) ==
    IF s = << >> \/ s[1] \notin Digits THEN 0 ELSE 1 + LeadingDigits(Tail(s))

RECURSIVE LeadingUnit(_)
LeadingUnit(s) ==
    IF s = << >> \/ s[1] \in Digits \cup {"."} THEN 0 ELSE 1 + LeadingUnit(Tail(s))

\* the loop of time.ParseDuration over "<digits><unit>" groups (fractions,
\* which no default of these record types uses, are a syntax error here)
RECURSIVE ParseDurationGroups(_, _)
ParseDurationGroups(s, acc) ==
    IF s = << >> THEN [err |-> "none", val |-> acc]
    ELSE LET n == LeadingDigits(s)
             rest == SubSeq(s, n + 1, Len(s))
             u == LeadingUnit(rest)
             unit == SubSeq(rest, 1, u)
         IN  IF n = 0 \/ u = 0 \/ unit \notin DurationUnits
             THEN [err |-> "syntax", val |-> 0]
             ELSE ParseDurationGroups(SubSeq(rest, u + 1, Len(rest)),
                                      acc + DigitsValue(SubSeq(s, 1, n)) * UnitValue(unit))

\* time.ParseDuration
ParseDuration(s) ==
    LET signed == s /= << >> /\ s[1] \in {"+", "-"}
        body == IF signed THEN Tail(s) ELSE s
        r == ParseDurationGroups(body, 0)
    IN  IF body = <<"0">> THEN [err |-> "none", val |-> 0]
        ELSE IF body = << >> THEN [err |-> "syntax", val |-> 0]
        ELSE IF r.err = "none" /\ signed /\ s[1] = "-"
        THEN [err |-> "none", val |-> 0 - r.val]
        ELSE r

\* reflect.Value.SetInt / SetUint: the value is stored in the width of the kind
\* (an int and an int64 are 64 bits wide, beyond every integer of this model)
SetInt(kind, x) ==
    IF kind = "int8" THEN ((x + 128) % 256) - 128
    ELSE IF kind = "int16" THEN ((x + 32768) % 65536) - 32768
    ELSE x

SetUint(kind, x) ==
    IF kind = "uint16" THEN x % 65536 ELSE x

\* parseAndSetDefault(field, defaultTag, fieldType): the new value of the field
\* and "none", or the failure ("parse" for a strconv / time error, "unsupported"
\* for a kind with no handler).  The universe holds no float kind.
parseAndSetDefault(field, defaultTag, fieldType) ==
    IF fieldType = "time.Duration"
    THEN LET d == ParseDuration(defaultTag)
         IN  IF d.err /= "none" THEN [v |-> field, err |-> "parse"]
             ELSE [v |-> SetInt("int64", d.val), err |-> "none"]
    ELSE CASE Kind(fieldType) = "string" -> [v |-> defaultTag, err |-> "none"]
           [] Kind(fieldType) \in IntKinds ->
                LET i == ParseInt(defaultTag)
                IN  IF i.err /= "none" THEN [v |-> field, err |-> "parse"]
                    ELSE [v |-> SetInt(Kind(fieldType), i.val), err |-> "none"]
           [] Kind(fieldType) \in UintKinds ->
                LET ui == ParseUint(defaultTag)
                IN  IF ui.err /= "none" THEN [v |-> field, err |-> "parse"]
                    ELSE [v |-> SetUint(Kind(fieldType), ui.val), err |-> "none"]
           [] Kind(fieldType) = "bool" ->
                LET b == ParseBool(defaultTag)
                IN  IF b.err /= "none" THEN [v |-> field, err |-> "parse"]
                    ELSE [v |-> b.val, err |-> "none"]
           [] OTHER -> [v |-> field, err |-> "unsupported"]

(***************************************************************************)
(* The metadata cache and the Field-Metadata Extractor.                    *)
(***************************************************************************)
Config(d, r) == [DefaultTag |-> d, RequiredTag |-> r]
defaultConfig == Config("default", "required")
\* an Annotation Config a caller passes to NewWithConfig
customConfig == Config("cfgdefault", "cfgrequired")
Configs == {defaultConfig, customConfig}

\* sync.Map.Load
Load(cache, k) ==
    IF \E e \in cache : e.key = k
    THEN [ok |-> TRUE, value |-> (CHOOSE e \in cache : e.key = k).value]
    ELSE [ok |-> FALSE, value |-> << >>]

\* sync.Map.Store: the entry of the key is replaced
Store(cache, k, v) ==
    {e \in cache : e.key /= k} \cup {[key |-> k, value |-> v]}

\* one iteration of the loop of getTypeMetadata: field i of the type is
\* skipped when it is not exported and appended otherwise
appendField(metadata, t, i, config) ==
    LET sf == StructFields(t)[i]
    IN  IF sf.PkgPath /= "" THEN metadata
        ELSE Append(metadata,
                    [Index |-> <<i>>,
                     Name |-> sf.Name,
                     DefaultTag |-> TagGet(sf.Tag, config.DefaultTag),
                     Required |-> (TagGet(sf.Tag, config.RequiredTag) = str_true),
                     Type |-> sf.Type])

\* the whole loop, from field i on
RECURSIVE extractFrom(_, _, _, _)
extractFrom(metadata, t, i, config) ==
    IF i > NumField(t) THEN metadata
    ELSE extractFrom(appendField(metadata, t, i, config), t, i + 1, config)

\* getTypeMetadata(t, config) run without interruption: the descriptors it
\* returns and the cache it leaves
getTypeMetadata(cache, t, config) ==
    LET cached == Load(cache, t)
        metadata == extractFrom(<< >>, t, 1, config)
    IN  IF cached.ok THEN [md |-> cached.value, cache |-> cache]
        ELSE [md |-> metadata, cache |-> Store(cache, t, metadata)]

(***************************************************************************)
(* The Override Mechanism: With(fieldName, value).                         *)
(***************************************************************************)
\* a value of type interface{}: its dynamic type and the value
Dyn(t, v) == [type |-> t, val |-> v]
\* the untyped nil: reflect.ValueOf(nil) is the zero reflect.Value
UntypedNil == Dyn("nil", "nil")

\* the capital letters, code points 65 to 90
Upper ==
    <<"A", "B", "C", "D", "E", "F", "G", "H", "I", "J", "K", "L", "M",
      "N", "O", "P", "Q", "R", "S", "T", "U", "V", "W", "X", "Y", "Z">>

\* the conversion of an integer to a string yields the text of that code
\* point, not its decimal digits (code points outside A..Z are not told apart)
cvtIntString(x) ==
    IF x \in 65..90 THEN <<Upper[x - 64]>> ELSE <<"<rune>">>

\* reflect.Type.ConvertibleTo, on the types of this universe
ConvertibleTo(src, dst) ==
    \/ src = dst
    \/ /\ Kind(src) \in IntKinds \cup UintKinds
       /\ Kind(dst) \in IntKinds \cup UintKinds \cup {"string"}

\* reflect.Value.Convert
Convert(v, src, dst) ==
    IF src = dst THEN v
    ELSE IF Kind(dst) \in IntKinds THEN SetInt(Kind(dst), v)
    ELSE IF Kind(dst) \in UintKinds THEN SetUint(Kind(dst), v)
    ELSE cvtIntString(v)

\* v.Kind() == reflect.Ptr && v.Elem().Kind() == reflect.Struct, for the target
\* of New, NewWithConfig and an override step (the Elem of a nil pointer is the
\* zero reflect.Value, of the invalid kind)
IsStructPointer(target) ==
    /\ Kind(target.type) = "ptr"
    /\ ~target.val.isNil
    /\ Kind(Elem(target.type)) = "struct"

\* an override step: the option With(fieldName, value) returns
Opt(fieldName, value) == [fieldName |-> fieldName, value |-> value]

\* a step that silently skips a name the record does not have
unknownFieldSkipped(target, name) == [target |-> target, err |-> NoErr]

\* if !field.IsValid() { return fmt.Errorf("no such field: %s", fieldName) }
unknownField(target, name) == [target |-> target, err |-> Err("nosuchfield", name)]

\* the option applied to a target: the target it leaves and the error
applyWith(target, opt) ==
    IF ~IsStructPointer(target) THEN [target |-> target, err |-> Err("target", "")]
    ELSE LET st == Elem(target.type)
             name == opt.fieldName
         IN  IF name \notin FieldNames(st)
             THEN unknownField(target, name)
             ELSE IF StructFields(st)[FieldIndex(st, name)].PkgPath /= ""
             THEN [target |-> target, err |-> Err("cannotset", name)]
             ELSE IF Kind(opt.value.type) = "invalid"
             THEN \* val.Type() on the zero reflect.Value panics
                  [target |-> target, err |-> Err("panic", name)]
             ELSE IF ~ConvertibleTo(opt.value.type, FieldType(st, name))
             THEN [target |-> target, err |-> Err("cannotconvert", name)]
             ELSE [target |->
                      Dyn(target.type,
                          Ptr([target.val.elem EXCEPT
                                 ![name] = Convert(opt.value.val, opt.value.type,
                                                   FieldType(st, name))])),
                   err |-> NoErr]

(***************************************************************************)
(* The Recursive Default Applier.                                          *)
(***************************************************************************)
\* field.Kind() == Struct || (field.Kind() == Ptr && field.Type().Elem().Kind() == Struct)
IsNestedRecord(ft) ==
    \/ Kind(ft) = "struct"
    \/ (Kind(ft) = "ptr" /\ Kind(Elem(ft)) = "struct")

\* what setDefaultRecursively leaves: the value, the cache and the error
Left(v, cache, err) == [v |-> v, cache |-> cache, err |-> err]

\* the result of the call on the element, seen through the pointer
ThroughPointer(r) == Left(Ptr(r.v), r.cache, r.err)

RECURSIVE setDefaultRecursively(_, _, _, _, _)
RECURSIVE defaultFields(_, _, _, _, _, _, _)
RECURSIVE defaultField(_, _, _, _, _, _, _, _)

\* the loop over the descriptors of a record of type t, from descriptor i on
defaultFields(v, t, metadata, i, config, cache, depth) ==
    IF i > Len(metadata) THEN Left(v, cache, NoErr)
    ELSE defaultField(v, t, metadata, i, config, depth,
                      StructFields(t)[metadata[i].Index[1]],
                      IF IsNestedRecord(StructFields(t)[metadata[i].Index[1]].Type)
                      THEN setDefaultRecursively(
                               v[StructFields(t)[metadata[i].Index[1]].Name],
                               StructFields(t)[metadata[i].Index[1]].Type,
                               config, cache, depth + 1)
                      ELSE Left(v[StructFields(t)[metadata[i].Index[1]].Name], cache, NoErr))

\* the body of the loop for descriptor i, field sf, once the nested call (if
\* any) has left the field as nested.v
defaultField(v, t, metadata, i, config, depth, sf, nested) ==
    IF nested.err /= NoErr
    THEN Left([v EXCEPT ![sf.Name] = nested.v], nested.cache, nested.err)
    ELSE IF isZeroValue(nested.v, sf.Type) /\ metadata[i].DefaultTag /= EmptyStr
    THEN IF parseAndSetDefault(nested.v, metadata[i].DefaultTag, metadata[i].Type).err /= "none"
         THEN Left([v EXCEPT ![sf.Name] = nested.v], nested.cache,
                   Err(parseAndSetDefault(nested.v, metadata[i].DefaultTag,
                                          metadata[i].Type).err,
                       metadata[i].Name))
         ELSE defaultFields(
                  [v EXCEPT ![sf.Name] =
                      parseAndSetDefault(nested.v, metadata[i].DefaultTag, metadata[i].Type).v],
                  t, metadata, i + 1, config, nested.cache, depth)
    ELSE defaultFields([v EXCEPT ![sf.Name] = nested.v], t, metadata, i + 1, config,
                       nested.cache, depth)

\* the descriptors in hand, the loop runs with the cache getTypeMetadata left
defaultWith(v, t, config, depth, got) ==
    defaultFields(v, t, got.md, 1, config, got.cache, depth)

\* setDefaultRecursively(v, config) on a value v of type t, as call number
\* depth of the chain of nested calls: the value, the cache and the error left
setDefaultRecursively(v, t, config, cache, depth) ==
    IF depth > MaxStack
    THEN Left(v, cache, Err("stackoverflow", ""))
    ELSE IF Kind(t) = "ptr"
    THEN ThroughPointer(
             setDefaultRecursively(IF v.isNil THEN Zero(Elem(t)) ELSE v.elem,
                                   Elem(t), config, cache, depth + 1))
    ELSE IF Kind(t) /= "struct"
    THEN Left(v, cache, NoErr)
    ELSE defaultWith(v, t, config, depth, getTypeMetadata(cache, t, config))

(***************************************************************************)
(* The Required-Field Validator.                                           *)
(***************************************************************************)
Checked(cache, err) == [cache |-> cache, err |-> err]

RECURSIVE validateRequiredFields(_, _, _, _, _)
RECURSIVE validateFields(_, _, _, _, _, _, _)
RECURSIVE validateField(_, _, _, _, _, _, _, _)

\* the loop over the descriptors of a record of type t, from descriptor i on
validateFields(v, t, metadata, i, config, cache, depth) ==
    IF i > Len(metadata) THEN Checked(cache, NoErr)
    ELSE validateField(v, t, metadata, i, config, depth,
                       StructFields(t)[metadata[i].Index[1]],
                       IF IsNestedRecord(StructFields(t)[metadata[i].Index[1]].Type)
                       THEN validateRequiredFields(
                                v[StructFields(t)[metadata[i].Index[1]].Name],
                                StructFields(t)[metadata[i].Index[1]].Type,
                                config, cache, depth + 1)
                       ELSE Checked(cache, NoErr))

\* the body of the loop for descriptor i, field sf, after the nested call
validateField(v, t, metadata, i, config, depth, sf, nested) ==
    IF nested.err /= NoErr THEN nested
    ELSE IF metadata[i].Required /\ isZeroValue(v[sf.Name], sf.Type)
    THEN Checked(nested.cache, Err("required", metadata[i].Name))
    ELSE validateFields(v, t, metadata, i + 1, config, nested.cache, depth)

validateWith(v, t, config, depth, got) ==
    validateFields(v, t, got.md, 1, config, got.cache, depth)

validateRequiredFields(v, t, config, cache, depth) ==
    IF depth > MaxStack
    THEN Checked(cache, Err("stackoverflow", ""))
    ELSE IF Kind(t) = "ptr"
    THEN IF v.isNil THEN Checked(cache, Err("nilpointer", ""))
         ELSE validateRequiredFields(v.elem, Elem(t), config, cache, depth + 1)
    ELSE IF Kind(t) /= "struct"
    THEN Checked(cache, NoErr)
    ELSE validateWith(v, t, config, depth, getTypeMetadata(cache, t, config))

(***************************************************************************)
(* The Orchestrator.                                                       *)
(***************************************************************************)
\* the loop over opts, from step i on: the target left, the first error, and
\* for every step that ran the target before it, the target after it and its error
RECURSIVE applyOptions(_, _, _, _)
RECURSIVE applyOption(_, _, _, _, _)
RECURSIVE applyOptionsBackwards(_, _, _, _)

\* the loop over opts run from the last step to the first
applyOptionsBackwards(target, opts, i, steps) ==
    IF i > Len(opts) THEN [target |-> target, err |-> NoErr, steps |-> steps]
    ELSE LET r == applyWith(target, opts[Len(opts) + 1 - i])
         IN  IF r.err /= NoErr
             THEN [target |-> r.target, err |-> r.err,
                   steps |-> Append(steps, [before |-> target, after |-> r.target,
                                            err |-> r.err])]
             ELSE applyOptionsBackwards(r.target, opts, i + 1,
                      Append(steps, [before |-> target, after |-> r.target, err |-> r.err]))

applyOptions(target, opts, i, steps) ==
    IF i > Len(opts) THEN [target |-> target, err |-> NoErr, steps |-> steps]
    ELSE applyOption(target, opts, i, steps, applyWith(target, opts[i]))

\* step i has run and left r, and the loop goes on to the next step whatever
\* the step returned
applyOptionContinuing(target, opts, i, steps, r) ==
    applyOptions(r.target, opts, i + 1,
                 Append(steps, [before |-> target, after |-> r.target, err |-> r.err]))

\* step i has run and left r
applyOption(target, opts, i, steps, r) ==
    IF r.err /= NoErr
    THEN [target |-> r.target, err |-> r.err,
          steps |-> Append(steps, [before |-> target, after |-> r.target, err |-> r.err])]
    ELSE applyOptions(r.target, opts, i + 1,
                      Append(steps, [before |-> target, after |-> r.target, err |-> r.err]))

\* what a call leaves: the target and the error it returns, the cache, and what
\* its phases produced (phase: the last phase that ran)
Outcome(target, err, cache, phase, meta, defaulted, steps) ==
    [target |-> target, err |-> err, cache |-> cache, phase |-> phase,
     meta |-> meta, defaulted |-> defaulted, steps |-> steps]

\* NewWithConfig after the override steps: o is what they left, d what
\* defaulting left, val what validateRequiredFields(v.Elem(), config) says
afterValidation(meta, d, o, val) ==
    IF val.err /= NoErr
    THEN Outcome(o.target, val.err, val.cache, "validate", meta, o.defaulted, o.steps)
    ELSE Outcome(o.target, NoErr, val.cache, "done", meta, o.defaulted, o.steps)

\* NewWithConfig after defaulting: the loop over opts, then validation
afterOverrides(target, config, meta, d, o) ==
    IF o.err /= NoErr
    THEN Outcome(o.target, o.err, d.cache, "override", meta, o.defaulted, o.steps)
    ELSE afterValidation(meta, d, o,
             validateRequiredFields(o.target.val.elem, Elem(target.type), config, d.cache, 1))

\* the override steps run on the defaulted target
overrides(defaulted, opts) ==
    [defaulted |-> defaulted] @@ applyOptions(defaulted, opts, 1, << >>)

\* NewWithConfig from the call of setDefaultRecursively(v.Elem(), config) on,
\* which left d
afterDefaults(target, config, opts, meta, d) ==
    IF d.err /= NoErr
    THEN Outcome(Dyn(target.type, Ptr(d.v)), d.err, d.cache, "default", meta,
                 Dyn(target.type, Ptr(d.v)), << >>)
    ELSE afterOverrides(target, config, meta, d,
                        overrides(Dyn(target.type, Ptr(d.v)), opts))

\* NewWithConfig(target, config, opts...); meta: the descriptors its first
\* getTypeMetadata(t, config) returns
NewWithConfig(cache, target, config, opts) ==
    IF ~IsStructPointer(target)
    THEN Outcome(target, Err("target", ""), cache, "target", << >>, target, << >>)
    ELSE afterDefaults(target, config, opts,
                       getTypeMetadata(cache, Elem(target.type), config).md,
                       setDefaultRecursively(target.val.elem, Elem(target.type), config,
                                             cache, 1))

\* New(target, opts...)
New(cache, target, opts) == NewWithConfig(cache, target, defaultConfig, opts)

(***************************************************************************)
(* The callers' inputs: targets and override steps.                        *)
(***************************************************************************)
\* new(T): a pointer to the zero record
NewRecord(t) == Dyn(t, Ptr(Zero(Elem(t))))

\* a record the caller populated before the call
Populated(t, name, v) == Dyn(t, Ptr([Zero(Elem(t)) EXCEPT ![name] = v]))

RecordTargets ==
    {NewRecord("*Server"), NewRecord("*NestedConfig"), NewRecord("*TestStruct"),
     NewRecord("*Basic"), NewRecord("*Custom"), NewRecord("*Node"),
     NewRecord("*Limits"),
     Populated("*Basic", "MaxConns", 5), Populated("*Limits", "Big", 7)}

\* a nil pointer, a record passed by value, the untyped nil
OtherTargets ==
    {Dyn("*Server", NilPtr), Dyn("Basic", Zero("Basic")), UntypedNil}

Targets == RecordTargets \cup OtherTargets

\* the override steps a caller of each record type passes
Options(target) ==
    CASE ~IsStructPointer(target) -> {Opt("Address", Dyn("string", str_127001))}
      [] target.type = "*Server" ->
           {Opt("Address", Dyn("string", str_127001)),
            Opt("Address", Dyn("string", EmptyStr)),
            Opt("Address", UntypedNil),
            Opt("Nested", Dyn("*NestedConfig", NilPtr)),
            Opt("Nope", Dyn("int", 1))}
      [] target.type = "*Basic" ->
           {Opt("Address", Dyn("int", 65)),
            Opt("MaxConns", Dyn("int", 200)),
            Opt("MaxConns", Dyn("string", str_x)),
            Opt("Timeout", Dyn("int", 7))}
      [] target.type = "*TestStruct" ->
           {Opt("Field1", Dyn("string", str_x)),
            Opt("Field1", UntypedNil),
            Opt("Field2", Dyn("string", str_x))}
      [] target.type = "*NestedConfig" ->
           {Opt("Port", Dyn("int", 0)),
            Opt("Host", Dyn("string", str_x))}
      [] target.type = "*Custom" ->
           {Opt("secret", Dyn("string", str_x)),
            Opt("Label", Dyn("string", EmptyStr)),
            Opt("Level", Dyn("int", 3))}
      [] OTHER -> {}

OptLists(target) == UNION {[1..n -> Options(target)] : n \in 0..MaxOpts}

\* the Annotation Config a caller of NewWithConfig passes with a target: the
\* custom one with the record types whose callers use it (New passes the
\* built-in one with every target)
ConfigsFor(target) ==
    IF target.type \in {"*Server", "*NestedConfig", "*Custom"} THEN {customConfig}
    ELSE {defaultConfig}

(***************************************************************************)
(* The caller: one call after the other, each run to its end.              *)
(***************************************************************************)
NoCall ==
    [op |-> "none", input |-> UntypedNil, config |-> defaultConfig, opts |-> << >>,
     entry |-> {}, out |-> Outcome(UntypedNil, NoErr, {}, "none", << >>, UntypedNil, << >>)]

\* how a call ends for the caller
After(err) ==
    IF err.kind = "panic" THEN "panicked"
    ELSE IF err.kind = "stackoverflow" THEN "fatal"
    ELSE "returned"

Idle(g) == [pc |-> "idle", t |-> "none", config |-> defaultConfig, i |-> 0,
            metadata |-> << >>, seen |-> [ok |-> FALSE, value |-> << >>]]

Init ==
    /\ metadataCache = {}
    /\ pc = "idle"
    /\ call = NoCall
    /\ gor = [g \in 1..NumGoroutines |-> Idle(g)]

\* a step applied outside the orchestrator, as an outcome
Applied(cache, target, o) ==
    Outcome(o.target, o.err, cache, "override", << >>, target, o.steps)

\* the call ends: the caller holds what it left
Returns(op, target, config, opts, out) ==
    /\ call' = [op |-> op, input |-> target, config |-> config, opts |-> opts,
                entry |-> metadataCache, out |-> out]
    /\ metadataCache' = out.cache
    /\ pc' = After(out.err)
    /\ UNCHANGED gor

\* the caller calls NewWithConfig(target, config, opts...)
CallNewWithConfig ==
    \E target \in Targets :
      \E config \in ConfigsFor(target), opts \in OptLists(target) :
        /\ pc = "idle"
        /\ Returns("NewWithConfig", target, config, opts,
                   NewWithConfig(metadataCache, target, config, opts))

\* the caller calls New(target, opts...)
CallNew ==
    \E target \in Targets :
      \E opts \in OptLists(target) :
        /\ pc = "idle"
        /\ Returns("New", target, defaultConfig, opts, New(metadataCache, target, opts))

\* the caller applies an override step built by With to a target itself
CallOption ==
    \E target \in Targets :
      \E opt \in Options(target) :
        /\ pc = "idle"
        /\ Returns("Option", target, defaultConfig, <<opt>>,
                   Applied(metadataCache, target, applyOptions(target, <<opt>>, 1, << >>)))

\* the caller takes the result (or recovers from the panic) and goes on; a
\* fatal stack overflow ends the process
Resume ==
    /\ pc \in {"returned", "panicked"}
    /\ pc' = "idle"
    /\ call' = NoCall
    /\ UNCHANGED <<metadataCache, gor>>

Next == CallNewWithConfig \/ CallNew \/ CallOption \/ Resume

Spec == Init /\ [][Next]_vars

(***************************************************************************)
(* Goroutines in getTypeMetadata at the same time: the Load, each iteration *)
(* of the loop and the Store are steps of their own.                       *)
(***************************************************************************)
\* the record types the goroutines' calls reach
GoTypes == {"NestedConfig", "Custom"}

\* if cached, ok := metadataCache.Load(t); ok { return cached }
GoLoad(g) ==
    \E t \in GoTypes, config \in Configs :
      LET cached == Load(metadataCache, t)
      IN  /\ gor[g].pc = "idle"
          /\ gor' = [gor EXCEPT ![g] =
                       [pc |-> IF cached.ok THEN "idle" ELSE "build", t |-> t,
                        config |-> config, i |-> 1, metadata |-> << >>, seen |-> cached]]
          /\ UNCHANGED <<metadataCache, pc, call>>

\* an iteration that publishes the list it is still building
GoAppendPublishing(g) ==
    /\ gor[g].pc = "build"
    /\ gor[g].i <= NumField(gor[g].t)
    /\ gor' = [gor EXCEPT ![g].metadata =
                              appendField(gor[g].metadata, gor[g].t, gor[g].i, gor[g].config),
                          ![g].i = gor[g].i + 1]
    /\ metadataCache' = Store(metadataCache, gor[g].t,
                              appendField(gor[g].metadata, gor[g].t, gor[g].i, gor[g].config))
    /\ UNCHANGED <<pc, call>>

\* one iteration of the loop over the fields
GoAppend(g) ==
    /\ gor[g].pc = "build"
    /\ gor[g].i <= NumField(gor[g].t)
    /\ gor' = [gor EXCEPT ![g].metadata =
                              appendField(gor[g].metadata, gor[g].t, gor[g].i, gor[g].config),
                          ![g].i = gor[g].i + 1]
    /\ UNCHANGED <<metadataCache, pc, call>>

\* metadataCache.Store(t, metadata); return metadata
GoStore(g) ==
    /\ gor[g].pc = "build"
    /\ gor[g].i > NumField(gor[g].t)
    /\ metadataCache' = Store(metadataCache, gor[g].t, gor[g].metadata)
    /\ gor' = [gor EXCEPT ![g].pc = "idle"]
    /\ UNCHANGED <<pc, call>>

NextConc == \E g \in 1..NumGoroutines : GoLoad(g) \/ GoAppend(g) \/ GoStore(g)

SpecConc == Init /\ [][NextConc]_vars

(***************************************************************************)
(* Properties.  They read the last call of the caller: its input, the      *)
(* target and the error it returned, and what each phase left.             *)
(***************************************************************************)
\* the last call was New or NewWithConfig on a pointer to a record
Orchestrated ==
    /\ call.op \in {"New", "NewWithConfig"}
    /\ IsStructPointer(call.input)

\* the record type of the target, the record passed and the record returned
RecordType == Elem(call.input.type)
Passed == call.input.val.elem
Returned == call.out.target.val.elem
Defaulted == call.out.defaulted.val.elem

\* the default of field i of record type t under the built-in annotation
\* names, parsed
AnnotatedDefault(t, i) ==
    parseAndSetDefault(Zero(StructFields(t)[i].Type),
                       TagGet(StructFields(t)[i].Tag, defaultConfig.DefaultTag),
                       StructFields(t)[i].Type)

\* every field is an exported string, int or duration field that carries a
\* default annotation which parses
PlainDefaulted(t) ==
    \A i \in 1..NumField(t) :
        /\ StructFields(t)[i].PkgPath = ""
        /\ StructFields(t)[i].Type \in {"string", "int", "time.Duration"}
        /\ TagGet(StructFields(t)[i].Tag, defaultConfig.DefaultTag) /= EmptyStr
        /\ AnnotatedDefault(t, i).err = "none"

\* C1: New with no override step on a record of string, int and duration
\* fields with valid defaults returns no error, every field that was zero
\* holds its parsed default and every other field holds what it held.
C1_DefaultsApplied ==
    (/\ Orchestrated
     /\ call.op = "New"
     /\ call.opts = << >>
     /\ PlainDefaulted(RecordType))
    => /\ call.out.err = NoErr
       /\ \A i \in 1..NumField(RecordType) :
            LET name == StructFields(RecordType)[i].Name
            IN  IF isZeroValue(Passed[name], StructFields(RecordType)[i].Type)
                THEN Returned[name] = AnnotatedDefault(RecordType, i).v
                ELSE Returned[name] = Passed[name]

\* C1 on a process that has not yet cached the descriptors of the type
C1_DefaultsAppliedFirstUse ==
    (Orchestrated /\ Load(call.entry, RecordType).ok) \/ C1_DefaultsApplied

\* the names of the fields of the record v of type t, and of the records it
\* reaches through non-nil nested references, that are annotated required
\* under config and hold their zero value
RECURSIVE RequiredZero(_, _, _)
RequiredZero(v, t, config) ==
    UNION {
        LET sf == StructFields(t)[i]
            here == IF /\ TagGet(sf.Tag, config.RequiredTag) = str_true
                       /\ isZeroValue(v[sf.Name], sf.Type)
                    THEN {sf.Name} ELSE {}
            below == IF Kind(sf.Type) = "struct" THEN RequiredZero(v[sf.Name], sf.Type, config)
                     ELSE IF IsNestedRecord(sf.Type) /\ ~v[sf.Name].isNil
                     THEN RequiredZero(v[sf.Name].elem, Elem(sf.Type), config)
                     ELSE {}
        IN  here \cup below
        : i \in {j \in 1..NumField(t) : StructFields(t)[j].PkgPath = ""} }

\* a nested-record reference of the record is nil
RECURSIVE HasNilNested(_, _)
HasNilNested(v, t) ==
    \E i \in 1..NumField(t) :
        LET sf == StructFields(t)[i]
        IN  /\ sf.PkgPath = ""
            /\ Kind(sf.Type) = "ptr"
            /\ IsNestedRecord(sf.Type)
            /\ (v[sf.Name].isNil \/ HasNilNested(v[sf.Name].elem, Elem(sf.Type)))

\* C2: validation reads the record as the override steps left it: a call whose
\* defaulting and override steps succeeded fails with "required field <name>
\* is zero", naming such a field, when a field flagged required is zero then,
\* and succeeds when none is (an override step has set it).
C2_ValidationAfterOverrides ==
    (/\ Orchestrated
     /\ call.out.phase \in {"validate", "done"})
    => /\ RequiredZero(Returned, RecordType, call.config) /= {}
          => /\ call.out.err.kind = "required"
             /\ call.out.err.field \in RequiredZero(Returned, RecordType, call.config)
       /\ (/\ RequiredZero(Returned, RecordType, call.config) = {}
           /\ ~HasNilNested(Returned, RecordType))
          => call.out.err = NoErr

\* C2 on a process that has cached no descriptors yet
C2_ValidationAfterOverridesFirstUse ==
    (call.entry = {}) => C2_ValidationAfterOverrides

\* the last step of opts that names the field, 0 when none does
LastNaming(opts, name) ==
    IF \E i \in 1..Len(opts) : opts[i].fieldName = name
    THEN CHOOSE i \in 1..Len(opts) :
             /\ opts[i].fieldName = name
             /\ \A j \in (i + 1)..Len(opts) : opts[j].fieldName /= name
    ELSE 0

\* C3: when every override step succeeds, a field a step names holds the value
\* of the last step naming it (converted to the field's type), and a field no
\* step names holds the value defaulting left.
C3_LastOverrideWins ==
    (/\ Orchestrated
     /\ call.out.phase \in {"validate", "done"})
    => \A i \in 1..NumField(RecordType) :
         LET sf == StructFields(RecordType)[i]
             last == LastNaming(call.opts, sf.Name)
         IN  IF last = 0 THEN Returned[sf.Name] = Defaulted[sf.Name]
             ELSE Returned[sf.Name] =
                      Convert(call.opts[last].value.val, call.opts[last].value.type, sf.Type)

\* two steps name the same field with different values, the later one differs
\* from the default, and both succeeded
C3_Witness ==
    /\ Orchestrated
    /\ call.out.phase \in {"validate", "done"}
    /\ Len(call.opts) = 2
    /\ call.opts[1].fieldName = call.opts[2].fieldName
    /\ call.opts[1].value /= call.opts[2].value
    /\ Returned[call.opts[2].fieldName] /= Defaulted[call.opts[2].fieldName]
    /\ Returned[call.opts[2].fieldName] = call.opts[2].value.val

\* C4: a nested-record reference that is nil when New is called is allocated
\* and the nested record's fields hold their parsed defaults on return, with
\* or without override steps (none of which names the reference).
C4_NestedDefaults ==
    (/\ Orchestrated
     /\ call.op = "New"
     /\ RecordType = "Server"
     /\ Passed["Nested"].isNil
     /\ LastNaming(call.opts, "Nested") = 0)
    => /\ ~Returned["Nested"].isNil
       /\ \A i \in 1..NumField("NestedConfig") :
            Returned["Nested"].elem[StructFields("NestedConfig")[i].Name]
                = AnnotatedDefault("NestedConfig", i).v

\* C4 on a process that has cached no descriptors yet
C4_NestedDefaultsFirstUse ==
    (call.entry = {}) => C4_NestedDefaults

\* C5: a step whose name matches no field of the target record fails with "no
\* such field" and leaves the record as it was.
C5_UnknownField ==
    \A i \in 1..Len(call.out.steps) :
        (/\ IsStructPointer(call.out.steps[i].before)
         /\ call.opts[i].fieldName \notin FieldNames(Elem(call.out.steps[i].before.type)))
        => /\ call.out.steps[i].err = Err("nosuchfield", call.opts[i].fieldName)
           /\ call.out.steps[i].after = call.out.steps[i].before

\* an unknown-field step ran after a step that changed the record
C5_Witness ==
    /\ Orchestrated
    /\ Len(call.out.steps) = 2
    /\ call.out.steps[1].err = NoErr
    /\ call.out.steps[1].after /= call.out.steps[1].before
    /\ call.opts[2].fieldName \notin FieldNames(RecordType)
    /\ call.out.err.kind = "nosuchfield"

\* C11: when an override step fails, no later step is applied and validation
\* is not run, the record holds what defaulting and the earlier successful
\* steps made of it, and the call returns the error that step returned.
C11_FailureAborts ==
    (/\ Orchestrated
     /\ call.out.phase \notin {"target", "default"})
    => /\ Len(call.out.steps) <= Len(call.opts)
       /\ call.out.steps /= << >> => call.out.steps[1].before = call.out.defaulted
       /\ \A j \in 1..Len(call.out.steps) :
            /\ call.out.steps[j].after
                   = applyWith(call.out.steps[j].before, call.opts[j]).target
            /\ call.out.steps[j].err
                   = applyWith(call.out.steps[j].before, call.opts[j]).err
            /\ j > 1 => call.out.steps[j].before = call.out.steps[j - 1].after
       /\ \A k \in 1..Len(call.out.steps) :
            call.out.steps[k].err /= NoErr
            => /\ k = Len(call.out.steps)
               /\ call.out.phase = "override"
               /\ call.out.target = call.out.steps[k].before
               /\ call.out.steps[k].err.kind /= "panic"
                  => /\ pc = "returned"
                     /\ call.out.err = call.out.steps[k].err
       /\ (\A k \in 1..Len(call.out.steps) : call.out.steps[k].err = NoErr)
          => Len(call.out.steps) = Len(call.opts)

\* the second step returned an error after defaulting and the first step had
\* both changed the record, and the record returned holds both changes
C11_Witness ==
    /\ Orchestrated
    /\ pc = "returned"
    /\ call.out.phase = "override"
    /\ Len(call.opts) = 2
    /\ Len(call.out.steps) = 2
    /\ call.out.defaulted /= call.input
    /\ call.out.steps[1].after /= call.out.defaulted
    /\ call.out.steps[2].err /= NoErr
    /\ call.out.err = call.out.steps[2].err
    /\ call.out.target = call.out.steps[1].after

\* a failing first step was followed by a step that would have changed the
\* record, which holds what defaulting left
C11_LaterStepSkipped ==
    /\ Orchestrated
    /\ call.out.phase = "override"
    /\ Len(call.opts) = 2
    /\ Len(call.out.steps) = 1
    /\ applyWith(call.out.defaulted, call.opts[2]).err = NoErr
    /\ applyWith(call.out.defaulted, call.opts[2]).target /= call.out.defaulted
    /\ call.out.target = call.out.defaulted

\* the names of the nested-record references of the record v of type t, and
\* of the records it reaches, that are annotated required under config and nil
RECURSIVE RequiredNilRefs(_, _, _)
RequiredNilRefs(v, t, config) ==
    UNION {
        LET sf == StructFields(t)[i]
            here == IF /\ IsNestedRecord(sf.Type)
                       /\ Kind(sf.Type) = "ptr"
                       /\ TagGet(sf.Tag, config.RequiredTag) = str_true
                       /\ v[sf.Name].isNil
                    THEN {sf.Name} ELSE {}
            below == IF Kind(sf.Type) = "struct"
                     THEN RequiredNilRefs(v[sf.Name], sf.Type, config)
                     ELSE IF IsNestedRecord(sf.Type) /\ ~v[sf.Name].isNil
                     THEN RequiredNilRefs(v[sf.Name].elem, Elem(sf.Type), config)
                     ELSE {}
        IN  here \cup below
        : i \in {j \in 1..NumField(t) : StructFields(t)[j].PkgPath = ""} }

\* C12: validation succeeds whenever every field flagged required holds a
\* non-zero value at every level, and it fails with "nil pointer encountered"
\* only when a nested-record reference flagged required is nil.
C12_NilPointerOnlyRequired ==
    (/\ Orchestrated
     /\ call.out.phase \in {"validate", "done"})
    => /\ RequiredZero(Returned, RecordType, call.config) = {}
          => call.out.err = NoErr
       /\ call.out.err.kind = "nilpointer"
          => RequiredNilRefs(Returned, RecordType, call.config) /= {}

\* C12 on a process that has cached no descriptors yet
C12_NilPointerOnlyRequiredFirstUse ==
    (call.entry = {}) => C12_NilPointerOnlyRequired

\* C12 but for the nil references: validation succeeds whenever no required
\* field is zero and no nested-record reference is nil, on a process that has
\* cached no descriptors yet
C12_SucceedsWhenPopulated ==
    (/\ Orchestrated
     /\ call.entry = {}
     /\ call.out.phase \in {"validate", "done"}
     /\ RequiredZero(Returned, RecordType, call.config) = {}
     /\ ~HasNilNested(Returned, RecordType))
    => call.out.err = NoErr

\* the base-10 integer literal s is out of range for the integer type t: a
\* literal of more than nineteen digits is beyond every width (the type
\* universe has no uint64), a shorter one is weighed against the width
OutOfRange(t, s) ==
    /\ Kind(t) \in IntKinds \cup UintKinds
    /\ s /= << >>
    /\ AllDigits(s)
    /\ IF Len(s) > 19 THEN TRUE
       ELSE CASE Kind(t) = "int8" -> DigitsValue(s) > 127
              [] Kind(t) = "int16" -> DigitsValue(s) > 32767
              [] Kind(t) = "uint16" -> DigitsValue(s) > 65535
              [] OTHER -> FALSE

\* the fields of the record type of the call that were zero on entry and whose
\* default annotation, under the names of the call, is out of range
OutOfRangeDefaults ==
    {i \in 1..NumField(RecordType) :
        /\ StructFields(RecordType)[i].PkgPath = ""
        /\ isZeroValue(Passed[StructFields(RecordType)[i].Name],
                       StructFields(RecordType)[i].Type)
        /\ OutOfRange(StructFields(RecordType)[i].Type,
                      TagGet(StructFields(RecordType)[i].Tag, call.config.DefaultTag))}

\* C13: when the default annotation of an integer field, of any width, is
\* out of range for the field, defaulting fails with a parse error naming such
\* a field, and no such field holds a value on return (it is still zero).
C13_OutOfRangeRejected ==
    (/\ Orchestrated
     /\ OutOfRangeDefaults /= {})
    => /\ call.out.phase = "default"
       /\ call.out.err.kind = "parse"
       /\ \E i \in OutOfRangeDefaults :
            call.out.err.field = StructFields(RecordType)[i].Name
       /\ \A i \in OutOfRangeDefaults :
            Returned[StructFields(RecordType)[i].Name]
                = Passed[StructFields(RecordType)[i].Name]

\* C13 for the 64-bit fields alone: when defaulting reaches a 64-bit field
\* whose default is out of range, the call fails with a parse error naming
\* the field, which is left zero
C13_OutOfRange64Rejected ==
    Orchestrated
    => \A i \in OutOfRangeDefaults :
         (/\ Kind(StructFields(RecordType)[i].Type) \in {"int", "int64"}
          /\ call.out.phase /= "default"
             \/ call.out.err.field = StructFields(RecordType)[i].Name)
         => /\ call.out.phase = "default"
            /\ call.out.err = Err("parse", StructFields(RecordType)[i].Name)
            /\ Returned[StructFields(RecordType)[i].Name] = 0

\* C6: a call reads the annotations of the record type under the names of the
\* Annotation Config it was passed, whatever earlier calls were passed.
C6_ConfigPerCall ==
    Orchestrated => call.out.meta = extractFrom(<< >>, RecordType, 1, call.config)

\* the types the engine does not own
ExternalTypes == {"*tls.Config"}

\* C7: a field of an externally-owned type with no default annotation that is
\* not required holds on return what it held on entry.
C7_OpaqueUntouched ==
    Orchestrated
    => \A i \in 1..NumField(RecordType) :
         LET sf == StructFields(RecordType)[i]
         IN  (/\ sf.Type \in ExternalTypes
              /\ TagGet(sf.Tag, call.config.DefaultTag) = EmptyStr
              /\ TagGet(sf.Tag, call.config.RequiredTag) /= str_true
              /\ LastNaming(call.opts, sf.Name) = 0)
             => Returned[sf.Name] = Passed[sf.Name]

\* the descriptor lists getTypeMetadata can build for a record type
FullLists(t) == {extractFrom(<< >>, t, 1, config) : config \in Configs}

\* C8: the cache holds at most one descriptor list per record type, every
\* list it holds is fully built, and what a goroutine's Load observed is no
\* entry or a fully built list.
C8_CacheAtomic ==
    /\ \A e1, e2 \in metadataCache : e1.key = e2.key => e1 = e2
    /\ \A e \in metadataCache : e.value \in FullLists(e.key)
    /\ \A g \in 1..NumGoroutines :
         gor[g].seen.ok => gor[g].seen.value \in FullLists(gor[g].t)

\* a goroutine observed a full list of a type while another, passed the other
\* Annotation Config, is in the middle of building the list of the same type
C8_Witness ==
    \E g, h \in 1..NumGoroutines :
        /\ g /= h
        /\ gor[g].pc = "build"
        /\ gor[g].i > 1
        /\ gor[g].i <= NumField(gor[g].t)
        /\ gor[h].pc = "idle"
        /\ gor[h].seen.ok
        /\ gor[h].t = gor[g].t
        /\ gor[h].config /= gor[g].config
        /\ gor[h].seen.value /= extractFrom(<< >>, gor[g].t, 1, gor[g].config)

\* C9: every failure of New, NewWithConfig and of an override step is returned
\* as an error value; none is a panic.
C9_NoPanic == pc /= "panicked"

\* C10: every call of New and NewWithConfig terminates by returning; none
\* recurses until the runtime aborts the process.
C10_Terminates == pc /= "fatal"

====
